---- MODULE Spec2Model ----
(***************************************************************************)
(* StackIt: the voting, acceptance and notification workflow of the        *)
(* backend (Question / Answer / Notification models and their              *)
(* controllers) as a state machine over the document store.                *)
(*                                                                         *)
(* Documents are records; a collection is a function whose DOMAIN is the   *)
(* set of ids of the stored documents.  Vote arrays are sequences of user  *)
(* ids (the createdAt of an entry is never read by the code).              *)
(*                                                                         *)
(* Document.save() of the ODM sends the delta of the loaded document:      *)
(* a path that was not changed is not written, Array.push() becomes an     *)
(* atomic $push, and an array path that was reassigned to a different      *)
(* value becomes a $set of the whole array guarded by the document         *)
(* version (the save fails with a VersionError when another save changed   *)
(* an array of the document since it was loaded).  The version counter is  *)
(* modelled by the flag `stale` of an in-flight request, raised whenever a *)
(* save of another request changes an array of the loaded document.        *)
(***************************************************************************)
EXTENDS Integers, Sequences, FiniteSets, TLC

\* ---------------------------------------------------------------- bounds
MaxAnswers == 2
\* vote entries stored over all questions and answers
MaxVotes == 3
\* the largest usageCount followed
MaxUsage == 3

\* ------------------------------------------------------------- constants
Users == {"u1", "u2", "u3"}
\* the ids createQuestion hands out
QuestionIds == {1}
\* the ids createAnswer hands out where votes are cast
VotedAnswerIds == {1}
\* the ids createAnswer hands out where answers compete for acceptance
RivalAnswerIds == {1, 2}
Titles == {"t1", "t2"}
\* the tag lists of a request body
TagLists == {<<"react">>, <<"React", "jwt">>, <<"jwt", "jwt">>}
\* the tag list of the requests where tags play no part
PlainTags == {<<"react">>}
\* answer contents: a text of `len` characters
Contents == {[text |-> "c1", len |-> 40], [text |-> "c2", len |-> 140]}
\* the content of the requests where contents play no part
PlainContents == {[text |-> "c1", len |-> 40]}
\* content.substring(0, 100)
PreviewLen == 100
VoteTypes == {"upvote", "downvote", "sideways"}

OK == 200
Created == 201
BadRequest == 400
Forbidden == 403
NotFound == 404
ServerError == 500

None == "none"
\* a request body without tags
NoTags == <<None>>

VARIABLES questions, answers, notifications, tags, nextQ, nextA, nextN,
          reqs, resp, everAccepted

vars == <<questions, answers, notifications, tags, nextQ, nextA, nextN,
          reqs, resp, everAccepted>>

store == <<questions, answers, notifications, tags, nextQ, nextA, nextN>>

\* ------------------------------------------------------ sequence helpers
Range(s) == {s[i] : i \in DOMAIN s}

\* Array.prototype.filter(vote => vote.user !== userId)
FilterOut(s, u) == SelectSeq(s, LAMBDA x : x # u)

Occurrences(s, u) == Cardinality({i \in DOMAIN s : s[i] = u})

IsPrefix(s, t) == Len(s) <= Len(t) /\ SubSeq(t, 1, Len(s)) = s

\* --------------------------------------------------- vote ledger (models)
voteCount(doc) == Len(doc.up) - Len(doc.down)

hasUserVoted(doc, u, vt) ==
    IF vt = "upvote" THEN u \in Range(doc.up)
    ELSE IF vt = "downvote" THEN u \in Range(doc.down)
    ELSE FALSE

\* addVote that leaves the opposite array alone
addVoteMemNoSwitch(doc, u, vt) ==
    IF vt = "upvote"
    THEN IF ~hasUserVoted(doc, u, "upvote")
         THEN [doc EXCEPT !.up = Append(doc.up, u)] ELSE doc
    ELSE IF vt = "downvote"
    THEN IF ~hasUserVoted(doc, u, "downvote")
         THEN [doc EXCEPT !.down = Append(doc.down, u)] ELSE doc
    ELSE doc

\* addVote that pushes without asking hasUserVoted
addVoteMemAlwaysPush(doc, u, vt) ==
    IF vt = "upvote"
    THEN [doc EXCEPT !.down = FilterOut(doc.down, u), !.up = Append(doc.up, u)]
    ELSE IF vt = "downvote"
    THEN [doc EXCEPT !.up = FilterOut(doc.up, u), !.down = Append(doc.down, u)]
    ELSE doc

\* the in-memory mutation of addVote, before this.save()
addVoteMem(doc, u, vt) ==
    IF vt = "upvote"
    THEN LET d1 == [doc EXCEPT !.down = FilterOut(doc.down, u)]
         IN IF ~hasUserVoted(d1, u, "upvote")
            THEN [d1 EXCEPT !.up = Append(d1.up, u)]
            ELSE d1
    ELSE IF vt = "downvote"
    THEN LET d1 == [doc EXCEPT !.up = FilterOut(doc.up, u)]
         IN IF ~hasUserVoted(d1, u, "downvote")
            THEN [d1 EXCEPT !.down = Append(d1.down, u)]
            ELSE d1
    ELSE doc

\* removeVote that clears the user from both arrays
removeVoteMemBoth(doc, u, vt) ==
    IF vt \in {"upvote", "downvote"}
    THEN [doc EXCEPT !.up = FilterOut(doc.up, u), !.down = FilterOut(doc.down, u)]
    ELSE doc

\* the in-memory mutation of removeVote, before this.save()
removeVoteMem(doc, u, vt) ==
    IF vt = "upvote" THEN [doc EXCEPT !.up = FilterOut(doc.up, u)]
    ELSE IF vt = "downvote" THEN [doc EXCEPT !.down = FilterOut(doc.down, u)]
    ELSE doc

\* ------------------------------------------------------------ save()
\* how save() writes one array path: nothing, $push of the pushed suffix,
\* or $set of the whole array
PathOp(orig, cur) ==
    IF cur = orig THEN "none"
    ELSE IF IsPrefix(orig, cur) THEN "push"
    ELSE "set"

Suffix(orig, cur) == SubSeq(cur, Len(orig) + 1, Len(cur))

WritePath(stored, orig, cur) ==
    CASE PathOp(orig, cur) = "none" -> stored
      [] PathOp(orig, cur) = "push" -> stored \o Suffix(orig, cur)
      [] OTHER -> cur

\* the save needs the version of the loaded document to be current
NeedsVersion(orig, doc) ==
    PathOp(orig.up, doc.up) = "set" \/ PathOp(orig.down, doc.down) = "set"

\* the save changes an array, and so increments the version
BumpsVersion(orig, doc) == orig.up # doc.up \/ orig.down # doc.down

\* save() that writes the whole document as the request holds it
SaveDocWhole(stored, orig, doc) == doc

\* the stored document after save() of `doc`, loaded as `orig`
SaveDoc(stored, orig, doc) ==
    [stored EXCEPT !.up = WritePath(stored.up, orig.up, doc.up),
                   !.down = WritePath(stored.down, orig.down, doc.down),
                   !.isAccepted = IF doc.isAccepted # orig.isAccepted
                                  THEN doc.isAccepted ELSE stored.isAccepted]

\* addVote / removeVote of a document no other request has touched since it
\* was loaded: the document as persisted by this.save()
addVote(doc, u, vt) == SaveDoc(doc, doc, addVoteMem(doc, u, vt))

removeVote(doc, u, vt) == SaveDoc(doc, doc, removeVoteMem(doc, u, vt))

\* ---------------------------------------------------------- responses
\* res.status(st).json({ success, error | message | data })
\* `op` names the handler that answered
NoResp == [op |-> None, status |-> 0, msg |-> None, voteCount |-> 0,
           hasUpvoted |-> FALSE, hasDownvoted |-> FALSE, unreadCount |-> 0]

Reply(op, st, msg) == [NoResp EXCEPT !.op = op, !.status = st, !.msg = msg]

VoteReply(op, u, doc) ==
    [op |-> op, status |-> OK, msg |-> "votes", voteCount |-> voteCount(doc),
     hasUpvoted |-> hasUserVoted(doc, u, "upvote"),
     hasDownvoted |-> hasUserVoted(doc, u, "downvote"), unreadCount |-> 0]

\* res.json({ success, message, unreadCount }) of the notification controller
CountReply(op, msg, n) ==
    [NoResp EXCEPT !.op = op, !.status = OK, !.msg = msg, !.unreadCount = n]

\* ------------------------------------------------------------- Init
Init ==
    /\ questions = << >>
    /\ answers = << >>
    /\ notifications = << >>
    /\ tags = << >>
    /\ nextQ = 1
    /\ nextA = 1
    /\ nextN = 1
    /\ reqs = << >>
    /\ resp = NoResp
    /\ everAccepted = {}

\* ids a request may name: the stored ones, the ids handed out so far and one
\* that was never handed out
QTargets == DOMAIN questions \cup 1..nextQ
ATargets == DOMAIN answers \cup 1..nextA
NTargets == DOMAIN notifications \cup 1..nextN

\* the number of vote entries stored in a collection
RECURSIVE Entries(_, _)
Entries(coll, ids) ==
    IF ids = {} THEN 0
    ELSE LET x == CHOOSE y \in ids : TRUE
         IN Len(coll[x].up) + Len(coll[x].down) + Entries(coll, ids \ {x})

TotalVotes(qs, as) == Entries(qs, DOMAIN qs) + Entries(as, DOMAIN as)

\* ------------------------------------------------------- Tag model
\* String.prototype.toLowerCase() on the tag names in use
Lower(name) == IF name = "React" THEN "react" ELSE name

\* tagSchema.methods.incrementUsage on the tag `name`
incrementUsage(tg, name) == [tg EXCEPT ![name] = @ + 1]

\* tagSchema.methods.decrementUsage on the tag `name`
decrementUsage(tg, name) == [tg EXCEPT ![name] = IF @ > 0 THEN @ - 1 ELSE @]

\* Tag.findOrCreate(tagName): the Tag collection afterwards
findOrCreate(tg, tagName) ==
    IF Lower(tagName) \notin DOMAIN tg
    THEN (Lower(tagName) :> 1) @@ tg
    ELSE incrementUsage(tg, Lower(tagName))

\* for (const tagName of tags) { await Tag.findOrCreate(tagName) }
RECURSIVE findOrCreateAll(_, _)
findOrCreateAll(tg, names) ==
    IF names = << >> THEN tg
    ELSE findOrCreateAll(findOrCreate(tg, Head(names)), Tail(names))

\* processedTags: the names of the tags findOrCreate returned
processedTags(names) == [i \in DOMAIN names |-> Lower(names[i])]

\* for (const tagName of question.tags) { tag = findOne; if (tag) decrement }
RECURSIVE decrementAll(_, _)
decrementAll(tg, names) ==
    IF names = << >> THEN tg
    ELSE decrementAll(IF Head(names) \in DOMAIN tg
                      THEN decrementUsage(tg, Head(names)) ELSE tg,
                      Tail(names))

\* ------------------------------------------------- question controller
createQuestion(u, t, tl) ==
    /\ nextQ \in QuestionIds
    /\ tags' = findOrCreateAll(tags, tl)
    /\ questions' = (nextQ :> [author |-> u, title |-> t,
                               tags |-> processedTags(tl), up |-> << >>,
                               down |-> << >>, isAccepted |-> FALSE])
                    @@ questions
    /\ nextQ' = nextQ + 1
    /\ resp' = Reply("createQuestion", Created, "question")
    /\ UNCHANGED <<answers, notifications, nextA, nextN, reqs, everAccepted>>

\* updateQuestion that rewrites the title kept in the question's notifications
updateQuestionSyncTitle(u, q, t, tl) ==
    /\ IF q \notin DOMAIN questions
       THEN /\ resp' = Reply("updateQuestion", NotFound, "Question not found")
            /\ UNCHANGED <<questions, tags, notifications>>
       ELSE IF questions[q].author # u
       THEN /\ resp' = Reply("updateQuestion", Forbidden, "Not authorized to update this question")
            /\ UNCHANGED <<questions, tags, notifications>>
       ELSE /\ tags' = IF tl # NoTags THEN findOrCreateAll(tags, tl) ELSE tags
            /\ questions' =
                  [questions EXCEPT
                     ![q].title = IF t # "" THEN t ELSE @,
                     ![q].tags = IF tl # NoTags THEN processedTags(tl) ELSE @]
            /\ notifications' =
                  [n \in DOMAIN notifications |->
                     IF notifications[n].question = q
                     THEN [notifications[n] EXCEPT
                             !.questionTitle = questions'[q].title]
                     ELSE notifications[n]]
            /\ resp' = Reply("updateQuestion", OK, "question")
    /\ UNCHANGED <<answers, nextQ, nextA, nextN, reqs, everAccepted>>

\* title and tags as the request body gives them: "" for no title, NoTags
\* for no tags
updateQuestion(u, q, t, tl) ==
    /\ IF q \notin DOMAIN questions
       THEN /\ resp' = Reply("updateQuestion", NotFound, "Question not found")
            /\ UNCHANGED <<questions, tags>>
       ELSE IF questions[q].author # u
       THEN /\ resp' = Reply("updateQuestion", Forbidden, "Not authorized to update this question")
            /\ UNCHANGED <<questions, tags>>
       ELSE /\ tags' = IF tl # NoTags THEN findOrCreateAll(tags, tl) ELSE tags
            /\ questions' =
                  [questions EXCEPT
                     ![q].title = IF t # "" THEN t ELSE @,
                     ![q].tags = IF tl # NoTags THEN processedTags(tl) ELSE @]
            /\ resp' = Reply("updateQuestion", OK, "question")
    /\ UNCHANGED <<answers, notifications, nextQ, nextA, nextN, reqs,
                   everAccepted>>

\* a vote request without the check of the author
VoteOutcomeSelf(op, coll, u, id, vt) ==
    IF vt \notin {"upvote", "downvote"}
    THEN <<coll, Reply(op, BadRequest, "Invalid vote type")>>
    ELSE IF id \notin DOMAIN coll
    THEN <<coll, Reply(op, NotFound, "not found")>>
    ELSE <<[coll EXCEPT ![id] = addVote(coll[id], u, vt)],
           VoteReply(op, u, addVoteMem(coll[id], u, vt))>>

\* a vote request that answers from the document as it was loaded
VoteOutcomeLoaded(op, coll, u, id, vt) ==
    IF vt \notin {"upvote", "downvote"}
    THEN <<coll, Reply(op, BadRequest, "Invalid vote type")>>
    ELSE IF id \notin DOMAIN coll
    THEN <<coll, Reply(op, NotFound, "not found")>>
    ELSE IF coll[id].author = u
    THEN <<coll, Reply(op, BadRequest, "Cannot vote on your own")>>
    ELSE <<[coll EXCEPT ![id] = addVote(coll[id], u, vt)],
           VoteReply(op, u, coll[id])>>

\* the outcome of a vote request on a collection: <<collection', response>>
VoteOutcome(op, coll, u, id, vt) ==
    IF vt \notin {"upvote", "downvote"}
    THEN <<coll, Reply(op, BadRequest, "Invalid vote type")>>
    ELSE IF id \notin DOMAIN coll
    THEN <<coll, Reply(op, NotFound, "not found")>>
    ELSE IF coll[id].author = u
    THEN <<coll, Reply(op, BadRequest, "Cannot vote on your own")>>
    ELSE <<[coll EXCEPT ![id] = addVote(coll[id], u, vt)],
           VoteReply(op, u, addVoteMem(coll[id], u, vt))>>

\* a remove-vote request that does not look at voteType
RemoveVoteOutcomeUnchecked(op, coll, u, id, vt) ==
    IF id \notin DOMAIN coll
    THEN <<coll, Reply(op, NotFound, "not found")>>
    ELSE <<[coll EXCEPT ![id] = removeVote(coll[id], u, vt)],
           VoteReply(op, u, removeVoteMem(coll[id], u, vt))>>

\* the outcome of a remove-vote request: <<collection', response>>
RemoveVoteOutcome(op, coll, u, id, vt) ==
    IF vt \notin {"upvote", "downvote"}
    THEN <<coll, Reply(op, BadRequest, "Invalid vote type")>>
    ELSE IF id \notin DOMAIN coll
    THEN <<coll, Reply(op, NotFound, "not found")>>
    ELSE <<[coll EXCEPT ![id] = removeVote(coll[id], u, vt)],
           VoteReply(op, u, removeVoteMem(coll[id], u, vt))>>

voteQuestion(u, q, vt) ==
    LET out == VoteOutcome("voteQuestion", questions, u, q, vt)
    IN /\ out[1] # questions => TotalVotes(out[1], answers) <= MaxVotes
       /\ questions' = out[1]
       /\ resp' = out[2]
       /\ UNCHANGED <<tags, answers, notifications, nextQ, nextA, nextN, reqs,
                      everAccepted>>

removeVoteQuestion(u, q, vt) ==
    LET out == RemoveVoteOutcome("removeVoteQuestion", questions, u, q, vt)
    IN /\ out[1] # questions => TotalVotes(out[1], answers) <= MaxVotes
       /\ questions' = out[1]
       /\ resp' = out[2]
       /\ UNCHANGED <<tags, answers, notifications, nextQ, nextA, nextN, reqs,
                      everAccepted>>

\* --------------------------------------------------- answer controller
voteAnswer(u, a, vt) ==
    LET out == VoteOutcome("voteAnswer", answers, u, a, vt)
    IN /\ out[1] # answers => TotalVotes(questions, out[1]) <= MaxVotes
       /\ answers' = out[1]
       /\ resp' = out[2]
       /\ UNCHANGED <<tags, questions, notifications, nextQ, nextA, nextN, reqs,
                      everAccepted>>

removeVoteAnswer(u, a, vt) ==
    LET out == RemoveVoteOutcome("removeVoteAnswer", answers, u, a, vt)
    IN /\ out[1] # answers => TotalVotes(questions, out[1]) <= MaxVotes
       /\ answers' = out[1]
       /\ resp' = out[2]
       /\ UNCHANGED <<tags, questions, notifications, nextQ, nextA, nextN, reqs,
                      everAccepted>>

\* Model.deleteOne / deleteMany: the collection without the documents in ids
Without(coll, ids) == [x \in DOMAIN coll \ ids |-> coll[x]]

\* Answer.findOne({ question, author })
HasAnswered(ans, q, u) ==
    \E x \in DOMAIN ans : ans[x].question = q /\ ans[x].author = u

\* content.substring(0, 100) + (content.length > 100 ? '...' : '')
Preview(c) ==
    [text |-> c.text,
     len |-> IF c.len > PreviewLen THEN PreviewLen ELSE c.len,
     dots |-> c.len > PreviewLen]

\* a notification of createAnswer addressed to the answerer
AnswerNotificationToSender(question, qid, u, c) ==
    [recipient |-> u, sender |-> u, type |-> "answer",
     question |-> qid,
     content |-> <<"Someone answered your question", question.title>>,
     questionTitle |-> question.title, answerPreview |-> Preview(c),
     read |-> FALSE]

\* Notification.createNotification(data) of createAnswer
AnswerNotification(question, qid, u, c) ==
    [recipient |-> question.author, sender |-> u, type |-> "answer",
     question |-> qid,
     content |-> <<"Someone answered your question", question.title>>,
     questionTitle |-> question.title, answerPreview |-> Preview(c),
     read |-> FALSE]

\* createAnswer that notifies the question author of every answer
NotifyAnswerAlways(notifs, n, question, qid, u, c) ==
    (n :> AnswerNotification(question, qid, u, c)) @@ notifs

\* the notifications after createAnswer by u on the loaded question
NotifyAnswer(notifs, n, question, qid, u, c) ==
    IF question.author # u
    THEN (n :> AnswerNotification(question, qid, u, c)) @@ notifs
    ELSE notifs

createAnswer(u, q, c) ==
    /\ IF q \notin DOMAIN questions
       THEN /\ resp' = Reply("createAnswer", NotFound, "Question not found")
            /\ UNCHANGED <<answers, notifications, nextA, nextN>>
       ELSE IF HasAnswered(answers, q, u)
       THEN /\ resp' = Reply("createAnswer", BadRequest, "You have already answered this question")
            /\ UNCHANGED <<answers, notifications, nextA, nextN>>
       ELSE /\ nextA <= MaxAnswers
            /\ answers' = (nextA :> [question |-> q, author |-> u,
                                     content |-> c, isEdited |-> FALSE,
                                     up |-> << >>, down |-> << >>,
                                     isAccepted |-> FALSE]) @@ answers
            /\ nextA' = nextA + 1
            /\ notifications' = NotifyAnswer(notifications, nextN,
                                             questions[q], q, u, c)
            /\ nextN' = IF notifications' = notifications
                        THEN nextN ELSE nextN + 1
            /\ resp' = Reply("createAnswer", Created, "answer")
    /\ UNCHANGED <<tags, questions, nextQ, reqs, everAccepted>>

\* answerSchema.methods.editAnswer(newContent, editedBy)
editAnswer(doc, c) == [doc EXCEPT !.content = c, !.isEdited = TRUE]

updateAnswer(u, a, c) ==
    /\ IF a \notin DOMAIN answers
       THEN /\ resp' = Reply("updateAnswer", NotFound, "Answer not found")
            /\ UNCHANGED answers
       ELSE IF answers[a].author # u
       THEN /\ resp' = Reply("updateAnswer", Forbidden, "Not authorized to update this answer")
            /\ UNCHANGED answers
       ELSE /\ answers' = [answers EXCEPT ![a] = editAnswer(@, c)]
            /\ resp' = Reply("updateAnswer", OK, "answer")
    /\ UNCHANGED <<questions, notifications, tags, nextQ, nextA, nextN, reqs,
                   everAccepted>>

deleteAnswer(u, a) ==
    /\ IF a \notin DOMAIN answers
       THEN /\ resp' = Reply("deleteAnswer", NotFound, "Answer not found")
            /\ UNCHANGED answers
       ELSE IF answers[a].author # u
       THEN /\ resp' = Reply("deleteAnswer", Forbidden, "Not authorized to delete this answer")
            /\ UNCHANGED answers
       ELSE /\ answers' = Without(answers, {a})
            /\ resp' = Reply("deleteAnswer", OK, "Answer deleted successfully")
    /\ UNCHANGED <<tags, questions, notifications, nextQ, nextA, nextN, reqs,
                   everAccepted>>

\* acceptAnswer without the updateMany
UnacceptNone(ans, q, a) == ans

\* Answer.updateMany({ question, _id: { $ne: a } }, { isAccepted: false })
UnacceptOthers(ans, q, a) ==
    [x \in DOMAIN ans |->
        IF ans[x].question = q /\ x # a
        THEN [ans[x] EXCEPT !.isAccepted = FALSE]
        ELSE ans[x]]

\* a save of the accepted document that writes empty vote arrays with it
SaveAcceptedReset(coll, id, orig) ==
    IF id \in DOMAIN coll
    THEN [coll EXCEPT ![id] = [@ EXCEPT !.isAccepted = TRUE,
                                        !.up = << >>, !.down = << >>]]
    ELSE coll

\* this.isAccepted = true; this.save()  (of the document loaded as orig)
SaveAccepted(coll, id, orig) ==
    IF id \in DOMAIN coll
    THEN [coll EXCEPT ![id] = SaveDoc(coll[id], orig,
                                      [orig EXCEPT !.isAccepted = TRUE])]
    ELSE coll

\* answerSchema.methods.acceptAnswer on the answer loaded as orig
AcceptAnswerDoc(ans, a, orig) ==
    SaveAccepted(UnacceptOthers(ans, orig.question, a), a, orig)

\* acceptAnswer without the check of the question's author
acceptAnswerAnyUser(u, a) ==
    /\ IF a \notin DOMAIN answers
       THEN /\ resp' = Reply("acceptAnswer", NotFound, "Answer not found")
            /\ UNCHANGED <<answers, questions, everAccepted>>
       ELSE IF answers[a].question \notin DOMAIN questions
       THEN /\ resp' = Reply("acceptAnswer", NotFound, "Question not found")
            /\ UNCHANGED <<answers, questions, everAccepted>>
       ELSE /\ answers' = AcceptAnswerDoc(answers, a, answers[a])
            /\ questions' = SaveAccepted(questions, answers[a].question,
                                         questions[answers[a].question])
            /\ everAccepted' = everAccepted \cup {a}
            /\ resp' = Reply("acceptAnswer", OK, "Answer accepted successfully")
    /\ UNCHANGED <<tags, notifications, nextQ, nextA, nextN, reqs>>

acceptAnswer(u, a) ==
    /\ IF a \notin DOMAIN answers
       THEN /\ resp' = Reply("acceptAnswer", NotFound, "Answer not found")
            /\ UNCHANGED <<answers, questions, everAccepted>>
       ELSE IF answers[a].question \notin DOMAIN questions
       THEN /\ resp' = Reply("acceptAnswer", NotFound, "Question not found")
            /\ UNCHANGED <<answers, questions, everAccepted>>
       ELSE IF questions[answers[a].question].author # u
       THEN /\ resp' = Reply("acceptAnswer", Forbidden, "Only the question author can accept answers")
            /\ UNCHANGED <<answers, questions, everAccepted>>
       ELSE /\ answers' = AcceptAnswerDoc(answers, a, answers[a])
            /\ questions' = SaveAccepted(questions, answers[a].question,
                                         questions[answers[a].question])
            /\ everAccepted' = everAccepted \cup {a}
            /\ resp' = Reply("acceptAnswer", OK, "Answer accepted successfully")
    /\ UNCHANGED <<tags, notifications, nextQ, nextA, nextN, reqs>>

deleteQuestion(u, q) ==
    /\ IF q \notin DOMAIN questions
       THEN /\ resp' = Reply("deleteQuestion", NotFound, "Question not found")
            /\ UNCHANGED <<questions, answers, tags>>
       ELSE IF questions[q].author # u
       THEN /\ resp' = Reply("deleteQuestion", Forbidden, "Not authorized to delete this question")
            /\ UNCHANGED <<questions, answers, tags>>
       ELSE /\ answers' = Without(answers,
                              {a \in DOMAIN answers : answers[a].question = q})
            /\ tags' = decrementAll(tags, questions[q].tags)
            /\ questions' = Without(questions, {q})
            /\ resp' = Reply("deleteQuestion", OK, "Question deleted successfully")
    /\ UNCHANGED <<notifications, nextQ, nextA, nextN, reqs, everAccepted>>

\* ------------------------------------------- notification model, controller
\* markAsRead whose filter has no recipient when ids are given
NotificationMarkAsReadById(notifs, recipientId, ids) ==
    [n \in DOMAIN notifs |->
        IF (ids = {} /\ notifs[n].recipient = recipientId) \/ n \in ids
        THEN [notifs[n] EXCEPT !.read = TRUE]
        ELSE notifs[n]]

\* markAsRead whose filter has no recipient when no ids are given
NotificationMarkAsReadAnyone(notifs, recipientId, ids) ==
    [n \in DOMAIN notifs |->
        IF (ids = {} \/ (notifs[n].recipient = recipientId /\ n \in ids))
        THEN [notifs[n] EXCEPT !.read = TRUE]
        ELSE notifs[n]]

\* notificationSchema.statics.markAsRead(recipientId, notificationIds): ids is
\* the set of the ids in notificationIds, empty also when none were passed
NotificationMarkAsRead(notifs, recipientId, ids) ==
    [n \in DOMAIN notifs |->
        IF notifs[n].recipient = recipientId /\ (ids = {} \/ n \in ids)
        THEN [notifs[n] EXCEPT !.read = TRUE]
        ELSE notifs[n]]

\* notificationSchema.statics.getUnreadCount(recipientId)
getUnreadCount(notifs, recipientId) ==
    Cardinality({n \in DOMAIN notifs :
                    notifs[n].recipient = recipientId /\ ~notifs[n].read})

\* markAsRead of the controller; isArray: the body has a notificationIds array
markAsRead(u, isArray, ids) ==
    /\ IF ~isArray
       THEN /\ resp' = Reply("markAsRead", BadRequest, "Notification IDs array is required")
            /\ UNCHANGED notifications
       ELSE /\ notifications' = NotificationMarkAsRead(notifications, u, ids)
            /\ resp' = CountReply("markAsRead", "Notifications marked as read",
                                  getUnreadCount(notifications', u))
    /\ UNCHANGED <<questions, answers, tags, nextQ, nextA, nextN, reqs,
                   everAccepted>>

markAllAsRead(u) ==
    /\ notifications' = NotificationMarkAsRead(notifications, u, {})
    /\ resp' = CountReply("markAllAsRead", "All notifications marked as read", 0)
    /\ UNCHANGED <<questions, answers, tags, nextQ, nextA, nextN, reqs,
                   everAccepted>>

\* deleteNotification that looks the notification up by its id alone
deleteNotificationAnyOwner(u, id) ==
    /\ IF id \notin DOMAIN notifications
       THEN /\ resp' = Reply("deleteNotification", NotFound, "Notification not found")
            /\ UNCHANGED notifications
       ELSE /\ notifications' = Without(notifications, {id})
            /\ resp' = CountReply("deleteNotification", "Notification deleted",
                                  getUnreadCount(notifications', u))
    /\ UNCHANGED <<questions, answers, tags, nextQ, nextA, nextN, reqs,
                   everAccepted>>

deleteNotification(u, id) ==
    /\ IF id \notin DOMAIN notifications \/ notifications[id].recipient # u
       THEN /\ resp' = Reply("deleteNotification", NotFound, "Notification not found")
            /\ UNCHANGED notifications
       ELSE /\ notifications' = Without(notifications, {id})
            /\ resp' = CountReply("deleteNotification", "Notification deleted",
                                  getUnreadCount(notifications', u))
    /\ UNCHANGED <<questions, answers, tags, nextQ, nextA, nextN, reqs,
                   everAccepted>>

\* ------------------------------------------------------------ setup.js
\* users[0], users[1], users[2] of createSampleData are u1, u2, u3; the
\* sample documents get ids that no request hands out
SeedTags ==
    [n \in {"react", "javascript", "nodejs", "mongodb", "express",
            "authentication", "api", "testing"} |-> 0]

SeedQuestions ==
    (11 :> [author |-> "u1", title |-> "JWT authentication in React",
            tags |-> <<"react", "javascript", "authentication">>,
            up |-> <<"u2", "u3">>, down |-> << >>, isAccepted |-> FALSE])
    @@ (12 :> [author |-> "u2", title |-> "MongoDB vs PostgreSQL",
               tags |-> <<"mongodb", "api", "database">>,
               up |-> <<"u1">>, down |-> << >>, isAccepted |-> FALSE])
    @@ (13 :> [author |-> "u3", title |-> "React component testing",
               tags |-> <<"react", "testing", "javascript">>,
               up |-> <<"u1", "u2">>, down |-> << >>, isAccepted |-> FALSE])

SeedAnswers ==
    (11 :> [question |-> 11, author |-> "u2",
            content |-> [text |-> "s1", len |-> 439], isEdited |-> FALSE,
            up |-> <<"u1", "u3">>, down |-> << >>, isAccepted |-> TRUE])
    @@ (12 :> [question |-> 11, author |-> "u3",
               content |-> [text |-> "s2", len |-> 235], isEdited |-> FALSE,
               up |-> <<"u2">>, down |-> << >>, isAccepted |-> FALSE])
    @@ (13 :> [question |-> 12, author |-> "u1",
               content |-> [text |-> "s3", len |-> 238], isEdited |-> FALSE,
               up |-> <<"u2">>, down |-> << >>, isAccepted |-> FALSE])

\* main() of setup.js, run on a fresh database
createSampleData ==
    /\ questions = << >> /\ answers = << >> /\ notifications = << >>
    /\ tags = << >>
    /\ nextQ = 1 /\ nextA = 1
    /\ tags' = SeedTags
    /\ questions' = SeedQuestions
    /\ answers' = SeedAnswers
    /\ everAccepted' = {a \in DOMAIN SeedAnswers : SeedAnswers[a].isAccepted}
    /\ UNCHANGED <<notifications, nextQ, nextA, nextN, reqs, resp>>

\* the database after setup.js
InitSeeded ==
    /\ questions = SeedQuestions
    /\ answers = SeedAnswers
    /\ notifications = << >>
    /\ tags = SeedTags
    /\ nextQ = 1
    /\ nextA = 1
    /\ nextN = 1
    /\ reqs = << >>
    /\ resp = NoResp
    /\ everAccepted = {a \in DOMAIN SeedAnswers : SeedAnswers[a].isAccepted}

\* ---------------------------------------- requests, one await at a time
\* A request in flight holds what its handler has loaded: `orig` is the
\* document as findById returned it, `doc` the same document as the handler
\* has changed it in memory (for acceptAnswer: the loaded question, for
\* createAnswer: the content of the request body).
RequestIds == {1, 2}

NoDoc == [author |-> None]

Request(op, pc, u, id, vt, orig, doc) ==
    [op |-> op, pc |-> pc, user |-> u, id |-> id, voteType |-> vt,
     orig |-> orig, doc |-> doc, stale |-> FALSE]

\* a new request takes the lowest free slot; a vote request keeps its slot
\* when it has answered (pc = "done"), so each slot carries one vote request
FreeSlot(r) ==
    /\ r \in RequestIds \ DOMAIN reqs
    /\ \A x \in RequestIds \ DOMAIN reqs : r <= x

Finish(r) == Without(reqs, {r})

\* the requests left in flight after request r has saved document id of
\* collection cn: those holding that document are stale if the save changed
\* one of its arrays
AfterSave(r, cn, id, bumped) ==
    [x \in DOMAIN reqs \ {r} |->
        IF bumped /\ reqs[x].id = id /\ reqs[x].op \in cn
           /\ reqs[x].pc = "save"
        THEN [reqs[x] EXCEPT !.stale = TRUE]
        ELSE reqs[x]]

\* --- voteQuestion / voteAnswer: findById, checks and addVote in memory,
\*     then this.save()
QuestionOps == {"voteQuestion"}
AnswerOps == {"voteAnswer"}

voteBegin(r, op, u, id, vt) ==
    LET coll == IF op \in QuestionOps THEN questions ELSE answers
    IN /\ FreeSlot(r)
       /\ IF vt \notin {"upvote", "downvote"}
          THEN /\ resp' = Reply(op, BadRequest, "Invalid vote type")
               /\ UNCHANGED reqs
          ELSE IF id \notin DOMAIN coll
          THEN /\ resp' = Reply(op, NotFound, "not found")
               /\ UNCHANGED reqs
          ELSE IF coll[id].author = u
          THEN /\ resp' = Reply(op, BadRequest, "Cannot vote on your own")
               /\ UNCHANGED reqs
          ELSE /\ reqs' = (r :> Request(op, "save", u, id, vt, coll[id],
                                        addVoteMem(coll[id], u, vt))) @@ reqs
               /\ UNCHANGED resp
       /\ UNCHANGED <<store, everAccepted>>

\* this.save() of a vote request, and the response
voteSave(r) ==
    /\ r \in DOMAIN reqs
    /\ reqs[r].pc = "save"
    /\ LET rq == reqs[r]
           onQuestion == rq.op \in QuestionOps
           coll == IF onQuestion THEN questions ELSE answers
           conflict == NeedsVersion(rq.orig, rq.doc) /\ rq.stale
           saved == IF conflict \/ rq.id \notin DOMAIN coll THEN coll
                    ELSE [coll EXCEPT ![rq.id] =
                             SaveDoc(coll[rq.id], rq.orig, rq.doc)]
       IN /\ IF onQuestion
             THEN questions' = saved /\ UNCHANGED answers
             ELSE answers' = saved /\ UNCHANGED questions
          /\ resp' = IF conflict THEN Reply(rq.op, ServerError, "VersionError")
                     ELSE VoteReply(rq.op, rq.user, rq.doc)
          /\ reqs' = (r :> [rq EXCEPT !.pc = "done", !.stale = conflict])
                      @@ AfterSave(r, IF onQuestion THEN QuestionOps
                                      ELSE AnswerOps, rq.id,
                                   ~conflict /\ BumpsVersion(rq.orig, rq.doc))
    /\ UNCHANGED <<tags, notifications, nextQ, nextA, nextN, everAccepted>>

\* --- acceptAnswer: Answer.findById, Question.findById and the author
\*     check, Answer.updateMany, answer.save(), question.save()
acceptBegin(r, u, a) ==
    /\ FreeSlot(r)
    /\ IF a \notin DOMAIN answers
       THEN /\ resp' = Reply("acceptAnswer", NotFound, "Answer not found")
            /\ UNCHANGED reqs
       ELSE /\ reqs' = (r :> Request("acceptAnswer", "findQuestion", u, a,
                                     None, answers[a], NoDoc)) @@ reqs
            /\ UNCHANGED resp
    /\ UNCHANGED <<store, everAccepted>>

acceptFindQuestion(r) ==
    /\ r \in DOMAIN reqs
    /\ reqs[r].pc = "findQuestion"
    /\ LET q == reqs[r].orig.question
       IN IF q \notin DOMAIN questions
          THEN /\ resp' = Reply("acceptAnswer", NotFound, "Question not found")
               /\ reqs' = Finish(r)
          ELSE IF questions[q].author # reqs[r].user
          THEN /\ resp' = Reply("acceptAnswer", Forbidden,
                                "Only the question author can accept answers")
               /\ reqs' = Finish(r)
          ELSE /\ reqs' = [reqs EXCEPT ![r].pc = "updateMany",
                                       ![r].doc = questions[q]]
               /\ UNCHANGED resp
    /\ UNCHANGED <<store, everAccepted>>

acceptUpdateMany(r) ==
    /\ r \in DOMAIN reqs
    /\ reqs[r].pc = "updateMany"
    /\ answers' = UnacceptOthers(answers, reqs[r].orig.question, reqs[r].id)
    /\ reqs' = [reqs EXCEPT ![r].pc = "saveAnswer"]
    /\ UNCHANGED <<tags, questions, notifications, nextQ, nextA, nextN, resp,
                   everAccepted>>

acceptSaveAnswer(r) ==
    /\ r \in DOMAIN reqs
    /\ reqs[r].pc = "saveAnswer"
    /\ answers' = SaveAccepted(answers, reqs[r].id, reqs[r].orig)
    /\ reqs' = [reqs EXCEPT ![r].pc = "saveQuestion"]
    /\ UNCHANGED <<tags, questions, notifications, nextQ, nextA, nextN, resp,
                   everAccepted>>

acceptSaveQuestion(r) ==
    /\ r \in DOMAIN reqs
    /\ reqs[r].pc = "saveQuestion"
    /\ questions' = SaveAccepted(questions, reqs[r].orig.question, reqs[r].doc)
    /\ everAccepted' = everAccepted \cup {reqs[r].id}
    /\ resp' = Reply("acceptAnswer", OK, "Answer accepted successfully")
    /\ reqs' = Finish(r)
    /\ UNCHANGED <<tags, answers, notifications, nextQ, nextA, nextN>>

\* --- createAnswer: Question.findById, Answer.findOne, Answer.create,
\*     question.updateLastActivity(), Notification.createNotification
answerBegin(r, u, q, c) ==
    /\ FreeSlot(r)
    /\ IF q \notin DOMAIN questions
       THEN /\ resp' = Reply("createAnswer", NotFound, "Question not found")
            /\ UNCHANGED reqs
       ELSE /\ reqs' = (r :> Request("createAnswer", "findExisting", u, q,
                                     None, questions[q], c)) @@ reqs
            /\ UNCHANGED resp
    /\ UNCHANGED <<store, everAccepted>>

answerFindExisting(r) ==
    /\ r \in DOMAIN reqs
    /\ reqs[r].pc = "findExisting"
    /\ IF HasAnswered(answers, reqs[r].id, reqs[r].user)
       THEN /\ resp' = Reply("createAnswer", BadRequest, "You have already answered this question")
            /\ reqs' = Finish(r)
       ELSE /\ reqs' = [reqs EXCEPT ![r].pc = "create"]
            /\ UNCHANGED resp
    /\ UNCHANGED <<store, everAccepted>>

answerCreate(r) ==
    /\ r \in DOMAIN reqs
    /\ reqs[r].pc = "create"
    /\ nextA <= MaxAnswers
    /\ answers' = (nextA :> [question |-> reqs[r].id, author |-> reqs[r].user,
                             content |-> reqs[r].doc, isEdited |-> FALSE,
                             up |-> << >>, down |-> << >>,
                             isAccepted |-> FALSE]) @@ answers
    /\ nextA' = nextA + 1
    /\ reqs' = [reqs EXCEPT ![r].pc = "touch"]
    /\ UNCHANGED <<tags, questions, notifications, nextQ, nextN, resp, everAccepted>>

\* question.updateLastActivity(): save() of a document that is no longer
\* stored either fails (DocumentNotFoundError, answered as a server error) or
\* updates nothing, depending on the version of the ODM
answerTouch(r) ==
    /\ r \in DOMAIN reqs
    /\ reqs[r].pc = "touch"
    /\ \/ /\ reqs' = [reqs EXCEPT ![r].pc = "notify"]
          /\ UNCHANGED resp
       \/ /\ reqs[r].id \notin DOMAIN questions
          /\ reqs' = Finish(r)
          /\ resp' = Reply("createAnswer", ServerError, "DocumentNotFoundError")
    /\ UNCHANGED <<store, everAccepted>>

answerNotify(r) ==
    /\ r \in DOMAIN reqs
    /\ reqs[r].pc = "notify"
    /\ notifications' = NotifyAnswer(notifications, nextN, reqs[r].orig,
                                     reqs[r].id, reqs[r].user, reqs[r].doc)
    /\ nextN' = IF notifications' = notifications THEN nextN ELSE nextN + 1
    /\ resp' = Reply("createAnswer", Created, "answer")
    /\ reqs' = Finish(r)
    /\ UNCHANGED <<tags, questions, answers, nextQ, nextA, everAccepted>>

\* the vote ledger: the requests that create entities and cast or remove
\* votes (one question and one answer)
NextVote ==
    \/ \E u \in Users, t \in Titles, tl \in PlainTags : createQuestion(u, t, tl)
    \/ \E u \in Users, q \in QTargets, c \in PlainContents :
          nextA \in VotedAnswerIds /\ createAnswer(u, q, c)
    \/ \E u \in Users, q \in QTargets, vt \in VoteTypes : voteQuestion(u, q, vt)
    \/ \E u \in Users, q \in QTargets, vt \in VoteTypes : removeVoteQuestion(u, q, vt)
    \/ \E u \in Users, a \in ATargets, vt \in VoteTypes : voteAnswer(u, a, vt)
    \/ \E u \in Users, a \in ATargets, vt \in VoteTypes : removeVoteAnswer(u, a, vt)

SpecVote == Init /\ [][NextVote]_vars

\* the acceptance rule: the requests that create, accept and delete answers
NextAccept ==
    \/ \E u \in Users, t \in Titles, tl \in PlainTags : createQuestion(u, t, tl)
    \/ \E u \in Users, q \in QTargets , c \in PlainContents :
          createAnswer(u, q, c)
    \/ \E u \in Users, a \in ATargets : deleteAnswer(u, a)
    \/ \E u \in Users, a \in ATargets : acceptAnswer(u, a)

SpecAccept == Init /\ [][NextAccept]_vars

\* the sample database: acceptance and deletion on the documents of setup.js
NextSeed ==
    \/ createSampleData
    \/ \E u \in Users, a \in ATargets : acceptAnswer(u, a)
    \/ \E u \in Users, a \in ATargets : deleteAnswer(u, a)
    \/ \E u \in Users, q \in QTargets : deleteQuestion(u, q)

SpecSeed == Init /\ [][NextSeed]_vars

\* one createAnswer request at a time, interleaved at its awaits with the
\* deletion of the question and the acceptance of answers
FirstSlot == {1}

NextOrphan ==
    \/ \E u \in Users, t \in Titles, tl \in PlainTags : createQuestion(u, t, tl)
    \/ \E r \in FirstSlot, u \in Users, q \in QTargets, c \in PlainContents :
          answerBegin(r, u, q, c)
    \/ \E r \in FirstSlot : answerFindExisting(r)
    \/ \E r \in FirstSlot : answerCreate(r)
    \/ \E r \in FirstSlot : answerTouch(r)
    \/ \E r \in FirstSlot : answerNotify(r)
    \/ \E u \in Users, q \in QTargets : deleteQuestion(u, q)
    \/ \E u \in Users, a \in ATargets : acceptAnswer(u, a)

SpecOrphan == Init /\ [][NextOrphan]_vars

\* acceptAnswer requests on the sample database, interleaved at their awaits
NextAcceptRace ==
    \/ \E r \in RequestIds, u \in Users, a \in ATargets : acceptBegin(r, u, a)
    \/ \E r \in RequestIds : acceptFindQuestion(r)
    \/ \E r \in RequestIds : acceptUpdateMany(r)
    \/ \E r \in RequestIds : acceptSaveAnswer(r)
    \/ \E r \in RequestIds : acceptSaveQuestion(r)

SpecAcceptRace == InitSeeded /\ [][NextAcceptRace]_vars

\* two vote requests on the sample database, interleaved at their awaits
NextVoteRace ==
    \/ \E r \in RequestIds, op \in QuestionOps, u \in Users, q \in QTargets,
          vt \in VoteTypes : voteBegin(r, op, u, q, vt)
    \/ \E r \in RequestIds, op \in AnswerOps, u \in Users, a \in ATargets,
          vt \in VoteTypes : voteBegin(r, op, u, a, vt)
    \/ \E r \in RequestIds : voteSave(r)

SpecVoteRace == InitSeeded /\ [][NextVoteRace]_vars

\* createAnswer requests on one question, interleaved at their awaits
NextAnswerRace ==
    \/ \E u \in Users, t \in Titles, tl \in PlainTags : createQuestion(u, t, tl)
    \/ \E r \in RequestIds, u \in Users, q \in QTargets, c \in PlainContents :
          answerBegin(r, u, q, c)
    \/ \E r \in RequestIds : answerFindExisting(r)
    \/ \E r \in RequestIds : answerCreate(r)
    \/ \E r \in RequestIds : answerTouch(r)
    \/ \E r \in RequestIds : answerNotify(r)

SpecAnswerRace == Init /\ [][NextAnswerRace]_vars

\* the life of an accepted question: acceptance, deletion of answers, edits
\* (of the description) and a vote request on the question whose save comes
\* after other requests
NextSticky ==
    \/ \E u \in Users, t \in {"t1"}, tl \in PlainTags : createQuestion(u, t, tl)
    \/ \E u \in Users, q \in QTargets, c \in PlainContents :
          nextA \in RivalAnswerIds /\ createAnswer(u, q, c)
    \/ \E u \in Users, a \in ATargets : acceptAnswer(u, a)
    \/ \E u \in Users, a \in ATargets : deleteAnswer(u, a)
    \/ \E u \in Users, q \in QTargets, t \in {""}, tl \in {NoTags} :
          updateQuestion(u, q, t, tl)
    \/ \E r \in FirstSlot, op \in QuestionOps, u \in Users, q \in QTargets,
          vt \in {"upvote", "downvote"} : voteBegin(r, op, u, q, vt)
    \/ \E r \in FirstSlot : voteSave(r)

SpecSticky == Init /\ [][NextSticky]_vars

\* the notification dispatcher: answers and the edits that follow them
NextSnapshot ==
    \/ \E u \in Users, t \in Titles, tl \in PlainTags : createQuestion(u, t, tl)
    \/ \E u \in Users, q \in QTargets, c \in Contents : createAnswer(u, q, c)
    \/ \E u \in Users, q \in QTargets, t \in Titles \cup {""},
          tl \in {NoTags} : updateQuestion(u, q, t, tl)
    \/ \E u \in Users, a \in ATargets, c \in Contents : updateAnswer(u, a, c)

SpecSnapshot == Init /\ [][NextSnapshot]_vars

\* the notification inbox: answers to the sample questions create
\* notifications, their recipients and other users mark them read and delete
\* them
NextInbox ==
    \/ \E u \in Users, q \in QTargets, c \in PlainContents :
          createAnswer(u, q, c)
    \/ \E u \in Users, isArray \in BOOLEAN, ids \in SUBSET NTargets :
          markAsRead(u, isArray, ids)
    \/ \E u \in Users : markAllAsRead(u)
    \/ \E u \in Users, id \in NTargets : deleteNotification(u, id)

SpecInbox == InitSeeded /\ [][NextInbox]_vars

\* ======================================================================
\* Properties
\* ======================================================================
Directions == {"upvote", "downvote"}

Opposite(vt) == IF vt = "upvote" THEN "downvote" ELSE "upvote"

\* the stored questions and answers, as one set of documents
Entities == {questions[q] : q \in DOMAIN questions}
            \cup {answers[a] : a \in DOMAIN answers}

Voters(doc, vt) == IF vt = "upvote" THEN Range(doc.up) ELSE Range(doc.down)

\* C1 - vote mutual exclusion: after any sequence of addVote and removeVote
\* calls, no user is in both the upvotes and the downvotes of a question or
\* an answer.
C1_MutualExclusion ==
    \A doc \in Entities : Range(doc.up) \cap Range(doc.down) = {}

\* a vote request has just switched a vote: the voter is in one array, another
\* user in the other
C1_Witness ==
    /\ resp.op \in {"voteQuestion", "voteAnswer"} /\ resp.status = OK
    /\ resp.hasDownvoted /\ ~resp.hasUpvoted
    /\ \E doc \in Entities : doc.up # << >> /\ doc.down # << >>

\* C5 - self-vote rejection: a vote request by the author of the question or
\* answer fails with Forbidden and leaves both vote arrays unchanged.
C5_SelfVoteForbidden ==
    [][ /\ \A u \in Users, q \in DOMAIN questions, vt \in Directions :
             (voteQuestion(u, q, vt) /\ questions[q].author = u)
             => (resp'.status = Forbidden /\ questions' = questions)
        /\ \A u \in Users, a \in DOMAIN answers, vt \in Directions :
             (voteAnswer(u, a, vt) /\ answers[a].author = u)
             => (resp'.status = Forbidden /\ answers' = answers) ]_vars

\* what the code does on a self-vote: the request is rejected as a bad
\* request (400) and the vote arrays stay as they were
C5_SelfVoteRejected ==
    [][ /\ \A u \in Users, q \in DOMAIN questions, vt \in Directions :
             (voteQuestion(u, q, vt) /\ questions[q].author = u)
             => (resp'.status = BadRequest /\ questions' = questions)
        /\ \A u \in Users, a \in DOMAIN answers, vt \in Directions :
             (voteAnswer(u, a, vt) /\ answers[a].author = u)
             => (resp'.status = BadRequest /\ answers' = answers) ]_vars

\* C6 - vote toggle: addVote(e,u,d) followed by addVote(e,u,opposite d) leaves
\* u in the opposite array only, every other user's membership unchanged, and
\* the voteCount moved by exactly 2 (from no votes: +1 then -1).
C6_Toggle ==
    \A doc \in Entities : \A u \in Users \ {doc.author} : \A d \in Directions :
        LET first == addVote(doc, u, d)
            second == addVote(first, u, Opposite(d))
            sign == IF d = "upvote" THEN 1 ELSE -1
        IN /\ u \in Voters(second, Opposite(d))
           /\ u \notin Voters(second, d)
           /\ \A w \in Users \ {u} : \A x \in Directions :
                 (w \in Voters(second, x)) = (w \in Voters(first, x))
           /\ voteCount(second) = voteCount(first) - 2 * sign
           /\ (doc.up = << >> /\ doc.down = << >>)
                 => (voteCount(first) = sign /\ voteCount(second) = -sign)

\* a vote request has left its voter in the downvotes of a document that
\* another user upvoted
C6_Witness ==
    /\ resp.op \in {"voteQuestion", "voteAnswer"} /\ resp.status = OK /\ resp.voteCount = 0
    /\ resp.hasDownvoted /\ ~resp.hasUpvoted
    /\ \E doc \in Entities : Len(doc.up) = 1 /\ Len(doc.down) = 1

\* C7 - addVote idempotence: calling addVote twice in a row with the same
\* arguments gives the same vote arrays and voteCount as calling it once.
C7_Idempotent ==
    \A doc \in Entities : \A u \in Users : \A d \in Directions :
        LET once == addVote(doc, u, d)
            twice == addVote(once, u, d)
        IN /\ twice.up = once.up
           /\ twice.down = once.down
           /\ voteCount(twice) = voteCount(once)

\* a vote request has answered with the voter's upvote on a document that
\* holds exactly that one vote
C7_Witness ==
    /\ resp.op \in {"voteQuestion", "voteAnswer"} /\ resp.status = OK /\ resp.voteCount = 1
    /\ resp.hasUpvoted
    /\ \E doc \in Entities : Len(doc.up) = 1 /\ doc.down = << >>

AnswersOf(q) == {a \in DOMAIN answers : answers[a].question = q}

AcceptedOf(q) == {a \in AnswersOf(q) : answers[a].isAccepted}

\* C2 - single acceptance: after completed acceptAnswer calls, every question
\* with two or more answers has at most one accepted answer, and its
\* isAccepted is true exactly when one of its answers is accepted.
C2_SingleAcceptance ==
    resp = Reply("acceptAnswer", OK, "Answer accepted successfully")
    => \A q \in DOMAIN questions :
          Cardinality(AnswersOf(q)) >= 2
          => /\ Cardinality(AcceptedOf(q)) <= 1
             /\ questions[q].isAccepted = (AcceptedOf(q) # {})

\* C3 - concurrent acceptance: once the interleaved acceptAnswer requests have
\* all completed, at most one answer of a question is accepted.
C3_ConcurrentAcceptance ==
    reqs = << >> => \A q \in DOMAIN questions : Cardinality(AcceptedOf(q)) <= 1

VoteTarget(rq) == IF rq.op \in QuestionOps THEN questions[rq.id]
                  ELSE answers[rq.id]

\* C4 - no lost vote updates: when two vote requests of different users on the
\* same question or answer have both completed, the persisted vote arrays hold
\* both users' votes.
C4_NoLostVotes ==
    \A r1 \in DOMAIN reqs, r2 \in DOMAIN reqs :
        ( /\ reqs[r1].pc = "done" /\ reqs[r2].pc = "done"
          /\ reqs[r1].op = reqs[r2].op /\ reqs[r1].id = reqs[r2].id
          /\ reqs[r1].user # reqs[r2].user )
        => /\ reqs[r1].user \in Voters(VoteTarget(reqs[r1]), reqs[r1].voteType)
           /\ reqs[r2].user \in Voters(VoteTarget(reqs[r2]), reqs[r2].voteType)

\* C8 - re-acceptance: a successful acceptAnswer of Y leaves Y accepted, every
\* other answer of the question (an X accepted before) not accepted and the
\* question accepted; and a question's isAccepted, once true, stays true.
C8_ReAcceptance ==
    [][ /\ \A u \in Users, y \in DOMAIN answers :
             (acceptAnswer(u, y) /\ resp'.status = OK)
             => /\ answers'[y].isAccepted
                /\ \A x \in AnswersOf(answers[y].question) \ {y} :
                      ~answers'[x].isAccepted
                /\ questions'[answers[y].question].isAccepted
        /\ \A q \in DOMAIN questions \cap DOMAIN questions' :
             questions[q].isAccepted => questions'[q].isAccepted ]_vars

\* X was accepted, then Y: both were accepted at some time, Y is now
C8_Witness ==
    /\ resp = Reply("acceptAnswer", OK, "Answer accepted successfully")
    /\ \E x \in DOMAIN answers, y \in DOMAIN answers :
          /\ x # y /\ {x, y} \subseteq everAccepted
          /\ answers[x].question = answers[y].question
          /\ ~answers[x].isAccepted /\ answers[y].isAccepted
          /\ questions[answers[y].question].isAccepted

\* the isAccepted flags of all answers and questions
AcceptFlags ==
    <<[a \in DOMAIN answers |-> answers[a].isAccepted],
      [q \in DOMAIN questions |-> questions[q].isAccepted]>>

\* C9 - acceptance authorization: acceptAnswer fails with NotFound when the
\* answer or its question is not stored and with Forbidden when the user is
\* not the question's author, and a failing acceptAnswer changes no isAccepted.
C9_AcceptAuthorization ==
    [][ \A u \in Users, a \in ATargets :
          acceptAnswer(u, a)
          => /\ a \notin DOMAIN answers => resp'.status = NotFound
             /\ (a \in DOMAIN answers
                 /\ answers[a].question \notin DOMAIN questions)
                => resp'.status = NotFound
             /\ (a \in DOMAIN answers
                 /\ answers[a].question \in DOMAIN questions
                 /\ questions[answers[a].question].author # u)
                => resp'.status = Forbidden
             /\ resp'.status # OK => AcceptFlags' = AcceptFlags ]_vars

\* an acceptAnswer on an answer whose question is gone has answered NotFound
C9_Witness ==
    /\ resp = Reply("acceptAnswer", NotFound, "Question not found")
    /\ \E a \in DOMAIN answers : answers[a].question \notin DOMAIN questions
    /\ reqs = << >>

\* an acceptAnswer by someone else than the asker has answered Forbidden
C9_WitnessForbidden ==
    resp = Reply("acceptAnswer", Forbidden, "Only the question author can accept answers")

\* C10 - answer notification: a successful createAnswer on Q by U creates
\* exactly one notification (recipient Q.author, sender U, type answer,
\* questionTitle Q.title) when U is not Q's author, and none when U is.
C10_AnswerNotification ==
    [][ \A u \in Users, q \in DOMAIN questions, c \in Contents :
          (createAnswer(u, q, c) /\ resp'.status = Created)
          => LET new == DOMAIN notifications' \ DOMAIN notifications
             IN /\ \A n \in DOMAIN notifications :
                     /\ n \in DOMAIN notifications'
                     /\ notifications'[n] = notifications[n]
                /\ IF u # questions[q].author
                   THEN /\ Cardinality(new) = 1
                        /\ \A n \in new :
                              /\ notifications'[n].recipient = questions[q].author
                              /\ notifications'[n].sender = u
                              /\ notifications'[n].type = "answer"
                              /\ notifications'[n].questionTitle = questions[q].title
                   ELSE new = {} ]_vars

\* two answers were created, the asker's own without a notification and
\* another user's with one
C10_Witness ==
    /\ resp = Reply("createAnswer", Created, "answer")
    /\ Cardinality(DOMAIN answers) = 2
    /\ Cardinality(DOMAIN notifications) = 1
    /\ \E a \in DOMAIN answers :
          answers[a].author = questions[answers[a].question].author
    /\ \E n \in DOMAIN notifications :
          /\ notifications[n].sender # notifications[n].recipient
          /\ notifications[n].questionTitle = questions[notifications[n].question].title

\* C11 - notification snapshot immutability: an updateQuestion or an
\* updateAnswer leaves every stored notification as it was, its
\* questionTitle, answerPreview and content included.
C11_SnapshotImmutable ==
    [][ LET kept == \A n \in DOMAIN notifications :
                       /\ n \in DOMAIN notifications'
                       /\ notifications'[n].questionTitle
                             = notifications[n].questionTitle
                       /\ notifications'[n].answerPreview
                             = notifications[n].answerPreview
                       /\ notifications'[n].content = notifications[n].content
        IN \/ kept
           \/ /\ \A u \in Users, q \in QTargets, t \in Titles \cup {""} :
                    ~updateQuestion(u, q, t, NoTags)
              /\ \A u \in Users, a \in ATargets, c \in Contents :
                    ~updateAnswer(u, a, c) ]_vars

\* the title of a question was changed after its answer notification was
\* created: the notification keeps the title it was created with
C11_Witness ==
    /\ resp = Reply("updateQuestion", OK, "question")
    /\ \E n \in DOMAIN notifications :
          /\ notifications[n].question \in DOMAIN questions
          /\ notifications[n].questionTitle
                # questions[notifications[n].question].title

\* C12 - one answer per user per question: in every reachable state, also
\* after interleaved createAnswer requests, no user has two answers on the
\* same question.
C12_OneAnswerPerUser ==
    \A u \in Users, q \in QTargets :
        Cardinality({a \in DOMAIN answers :
                        answers[a].author = u /\ answers[a].question = q}) <= 1

\* C13 - markRead ownership: markRead(recipientId, ids) sets read on exactly
\* the notifications of recipientId whose id is in ids, answers without an
\* error, and leaves every other notification as it was.
C13_MarkReadOwnership ==
    [][ LET exact(u, ids) ==
              /\ resp'.status = OK
              /\ notifications' =
                    [n \in DOMAIN notifications |->
                       IF notifications[n].recipient = u /\ n \in ids
                       THEN [notifications[n] EXCEPT !.read = TRUE]
                       ELSE notifications[n]]
        IN \A u \in Users, ids \in SUBSET NTargets :
              markAsRead(u, TRUE, ids) => exact(u, ids) ]_vars

\* C14 - markAllRead: after markAllRead(recipientId) every notification of
\* recipientId is read, the unreadCount of the response equals the number of
\* its unread notifications, and the notifications of other recipients are
\* as they were.
C14_MarkAllRead ==
    [][ \A u \in Users :
          markAllAsRead(u)
          => /\ DOMAIN notifications' = DOMAIN notifications
             /\ \A n \in DOMAIN notifications :
                   IF notifications[n].recipient = u
                   THEN notifications'[n] = [notifications[n] EXCEPT !.read = TRUE]
                   ELSE notifications'[n] = notifications[n]
             /\ resp'.status = OK
             /\ resp'.unreadCount = getUnreadCount(notifications', u) ]_vars

\* a markAllRead has answered while its recipient holds a read notification
\* and another recipient an unread one
C14_Witness ==
    /\ resp.op = "markAllAsRead"
    /\ \E n \in DOMAIN notifications, m \in DOMAIN notifications :
          /\ notifications[n].read /\ ~notifications[m].read
          /\ notifications[n].recipient # notifications[m].recipient

\* C15 - notification delete: delete(recipientId, id) removes the notification
\* exactly when it is stored and its recipient is recipientId; otherwise it
\* answers NotFound and the stored notifications are as they were.
C15_DeleteNotification ==
    [][ \A u \in Users, id \in NTargets :
          deleteNotification(u, id)
          => IF id \in DOMAIN notifications /\ notifications[id].recipient = u
             THEN /\ resp'.status = OK
                  /\ notifications' = Without(notifications, {id})
             ELSE /\ resp'.status = NotFound
                  /\ notifications' = notifications ]_vars

\* a delete by someone else than the recipient has answered NotFound and the
\* notification is still stored
C15_Witness ==
    /\ resp = Reply("deleteNotification", NotFound, "Notification not found")
    /\ Cardinality(DOMAIN notifications) = nextN - 1
    /\ nextN > 1

\* a delete by the recipient has removed one of two notifications
C15_WitnessDeleted ==
    /\ resp.op = "deleteNotification" /\ resp.status = OK
    /\ Cardinality(DOMAIN notifications) = 1
    /\ nextN = 3

\* C16 - sticky acceptance: no step sets the isAccepted of a question that
\* stays stored from true back to false.
C16_StickyAcceptance ==
    [][ \A q \in DOMAIN questions :
          (q \in DOMAIN questions' /\ questions[q].isAccepted)
          => questions'[q].isAccepted ]_vars

\* a vote request that loaded the question before it was accepted has saved
\* it afterwards, and the question is still accepted
C16_Witness ==
    /\ resp.op = "voteQuestion" /\ resp.status = OK
    /\ \E r \in DOMAIN reqs :
          /\ reqs[r].pc = "done" /\ ~reqs[r].stale
          /\ reqs[r].id \in DOMAIN questions
          /\ ~reqs[r].orig.isAccepted
          /\ questions[reqs[r].id].isAccepted

\* the accepted answer of a question was deleted: the question is accepted
\* and none of its answers is
C16_WitnessDeleted ==
    /\ resp = Reply("deleteAnswer", OK, "Answer deleted successfully")
    /\ \E q \in DOMAIN questions :
          questions[q].isAccepted /\ AcceptedOf(q) = {}

\* the handlers that cast and remove votes
CastOps == {"voteQuestion", "voteAnswer"}
RemoveOps == {"removeVoteQuestion", "removeVoteAnswer"}

\* the response tells the votes of `doc` as they stand for user u
Reports(r, doc, u) ==
    /\ r.voteCount = Cardinality(Range(doc.up)) - Cardinality(Range(doc.down))
    /\ r.hasUpvoted = (u \in Range(doc.up))
    /\ r.hasDownvoted = (u \in Range(doc.down))

C18_VoteTypeValidation ==
    \A u \in Users, vt \in VoteTypes \ Directions :
        /\ \A q \in QTargets :
              \A out \in {VoteOutcome("voteQuestion", questions, u, q, vt),
                          RemoveVoteOutcome("removeVoteQuestion", questions, u, q, vt)} :
                 out[2].status = BadRequest /\ out[1] = questions
        /\ \A a \in ATargets :
              \A out \in {VoteOutcome("voteAnswer", answers, u, a, vt),
                          RemoveVoteOutcome("removeVoteAnswer", answers, u, a, vt)} :
                 out[2].status = BadRequest /\ out[1] = answers

\* a remove-vote request was turned down for its voteType while the question
\* and the answer each hold a vote
C18_Witness ==
    /\ resp = Reply("removeVoteAnswer", BadRequest, "Invalid vote type")
    /\ \A doc \in Entities : doc.up # << >> \/ doc.down # << >>
    /\ answers # << >>

\* removeVote took u out of the array of direction d and touched nothing else
RemovedOnly(before, after, u, d) ==
    /\ Voters(after, d) = Voters(before, d) \ {u}
    /\ Voters(after, Opposite(d)) = Voters(before, Opposite(d))
    /\ u \notin Voters(before, d) => after = before

\* C19 - removeVote: removeVote(entity, userId, direction) removes userId from
\* the array of that direction if present, succeeds without a change if
\* absent, and leaves the opposite array and every other user's membership
\* unchanged.
C19_RemoveVoteFrame ==
    \A u \in Users, d \in Directions :
        /\ \A q \in DOMAIN questions :
              LET out == RemoveVoteOutcome("removeVoteQuestion", questions, u, q, d)
              IN /\ out[2].status = OK
                 /\ RemovedOnly(questions[q], out[1][q], u, d)
        /\ \A a \in DOMAIN answers :
              LET out == RemoveVoteOutcome("removeVoteAnswer", answers, u, a, d)
              IN /\ out[2].status = OK
                 /\ RemovedOnly(answers[a], out[1][a], u, d)

\* a remove-vote request on the question has succeeded and left the requester
\* without a vote, next to another user's downvote
C19_Witness ==
    /\ resp.op = "removeVoteQuestion" /\ resp.status = OK
    /\ resp.voteCount = -1 /\ ~resp.hasUpvoted /\ ~resp.hasDownvoted
    /\ \E q \in DOMAIN questions :
          questions[q].up = << >> /\ Len(questions[q].down) = 1

C21_VoteNotification ==
    [][ (resp'.op \in CastOps /\ resp'.status = OK) =>
        /\ \A u \in Users, q \in DOMAIN questions, vt \in Directions :
              voteQuestion(u, q, vt) =>
                 \E n \in DOMAIN notifications' \ DOMAIN notifications :
                    /\ notifications'[n].type = "vote"
                    /\ notifications'[n].recipient = questions[q].author
                    /\ notifications'[n].sender = u
        /\ \A u \in Users, a \in DOMAIN answers, vt \in Directions :
              voteAnswer(u, a, vt) =>
                 \E n \in DOMAIN notifications' \ DOMAIN notifications :
                    /\ notifications'[n].type = "vote"
                    /\ notifications'[n].recipient = answers[a].author
                    /\ notifications'[n].sender = u ]_vars

\* the vote arrays of every stored question and answer
Ledger(qs, as) ==
    <<[q \in DOMAIN qs |-> <<qs[q].up, qs[q].down>>],
      [a \in DOMAIN as |-> <<as[a].up, as[a].down>>]>>

\* C22 - acceptance emits no notification and touches no votes: a successful
\* acceptAnswer leaves the stored notifications and the vote arrays of every
\* question and answer unchanged.
C22_AcceptFrame ==
    [][ \/ resp' # Reply("acceptAnswer", OK, "Answer accepted successfully")
        \/ /\ notifications' = notifications
           /\ Ledger(questions', answers') = Ledger(questions, answers)
        \/ \A u \in Users, a \in DOMAIN answers : ~acceptAnswer(u, a) ]_vars

\* an answer has just been accepted on a question that holds a vote, with a
\* notification in the store
C22_Witness ==
    /\ resp = Reply("acceptAnswer", OK, "Answer accepted successfully")
    /\ notifications # << >>
    /\ \E a \in DOMAIN answers :
          /\ answers[a].isAccepted
          /\ answers[a].question \in DOMAIN questions
          /\ questions[answers[a].question].isAccepted
          /\ questions[answers[a].question].up # << >>

\* one acceptAnswer request at a time, its awaits visible to readers of the
\* database
NextAcceptSteps ==
    \/ \E u \in Users, t \in Titles, tl \in PlainTags : createQuestion(u, t, tl)
    \/ \E u \in Users, q \in QTargets, c \in PlainContents :
          createAnswer(u, q, c)
    \/ \E r \in FirstSlot, u \in Users, a \in ATargets : acceptBegin(r, u, a)
    \/ \E r \in FirstSlot : acceptFindQuestion(r)
    \/ \E r \in FirstSlot : acceptUpdateMany(r)
    \/ \E r \in FirstSlot : acceptSaveAnswer(r)
    \/ \E r \in FirstSlot : acceptSaveQuestion(r)

SpecAcceptSteps == Init /\ [][NextAcceptSteps]_vars

\* C23 - acceptance atomicity: the three writes of acceptAnswer take effect as
\* one step, so no stored state has an accepted answer whose question is not
\* accepted, nor an accepted question none of whose answers is accepted.
C23_AcceptAtomic ==
    \A q \in DOMAIN questions : questions[q].isAccepted = (AcceptedOf(q) # {})

\* C24 - markRead with an empty ids list: a mark-read request whose
\* notificationIds array is empty changes the read flag of no notification,
\* and the recipient's unread count is the same before and after.
C24_MarkReadEmpty ==
    [][ \A u \in Users :
           markAsRead(u, TRUE, {}) =>
              /\ notifications' = notifications
              /\ getUnreadCount(notifications', u) = getUnreadCount(notifications, u)
              /\ resp'.unreadCount = getUnreadCount(notifications, u) ]_vars

\* no entry of the sequence occurs twice
NoRepeat(s) == \A i \in DOMAIN s, j \in DOMAIN s : s[i] = s[j] => i = j

\* C25 - no duplicate vote entries under retries: in every reachable state
\* each user occurs at most once in the upvotes and at most once in the
\* downvotes of a question or an answer, also when the same addVote request
\* of a user is delivered twice and the deliveries interleave.
C25_NoDuplicateVotes ==
    \A doc \in Entities : NoRepeat(doc.up) /\ NoRepeat(doc.down)

\* C26 - author never in own ledger: in every state reached through the vote
\* endpoints from a state where it holds, the author of a question or an
\* answer is in neither the upvotes nor the downvotes of that entity.
C26_AuthorNotInLedger ==
    \A doc \in Entities : doc.author \notin Range(doc.up) \cup Range(doc.down)

\* an author's vote on their own answer has just been turned down, while the
\* question and the answer each hold a vote of another user
C26_Witness ==
    /\ resp = Reply("voteAnswer", BadRequest, "Cannot vote on your own")
    /\ answers # << >>
    /\ \A doc \in Entities : doc.up # << >> \/ doc.down # << >>

\* the tag ledger: questions created, retagged and deleted
NextTags ==
    \/ \E u \in Users, t \in Titles, tl \in TagLists : createQuestion(u, t, tl)
    \/ \E u \in Users, q \in QTargets, t \in {""}, tl \in TagLists :
          /\ updateQuestion(u, q, t, tl)
          /\ \A n \in DOMAIN tags' : tags'[n] <= MaxUsage
    \/ \E u \in Users, q \in QTargets : deleteQuestion(u, q)

SpecTags == Init /\ [][NextTags]_vars

\* the stored questions whose tag list holds the name
ReferringTo(name) == {q \in DOMAIN questions : name \in Range(questions[q].tags)}

\* C27 - tag usage accounting: after any sequence of createQuestion,
\* updateQuestion and deleteQuestion, the usageCount of each tag equals the
\* number of stored questions whose tag list holds the tag's name.
C27_TagAccounting ==
    \A name \in DOMAIN tags : tags[name] = Cardinality(ReferringTo(name))

\* the notifications unread in `before` and read in `after`
Flipped(before, after) ==
    {n \in DOMAIN before \cap DOMAIN after : ~before[n].read /\ after[n].read}

\* C28 - the read flag is monotonic and recipient-only: the read flag of a
\* notification never goes from true back to false, and it goes from false to
\* true only through a mark-read or mark-all-read request of the
\* notification's recipient.
C28_ReadMonotonic ==
    [][ /\ \A n \in DOMAIN notifications \cap DOMAIN notifications' :
              notifications[n].read => notifications'[n].read
        /\ Flipped(notifications, notifications') # {}
              => resp'.op \in {"markAsRead", "markAllAsRead"}
        /\ \A u \in Users, ids \in SUBSET NTargets :
              \A n \in Flipped(notifications,
                               NotificationMarkAsRead(notifications, u, ids)) :
                 notifications[n].recipient = u ]_vars

\* a mark-read request has answered; one recipient holds a read notification
\* and another recipient an unread one
C28_Witness ==
    /\ resp.op = "markAsRead" /\ resp.status = OK
    /\ \E n \in DOMAIN notifications, m \in DOMAIN notifications :
          /\ notifications[n].read /\ ~notifications[m].read
          /\ notifications[n].recipient # notifications[m].recipient

\* C29 - no self-notification: in every reachable state every stored
\* notification has a recipient different from its sender.
C29_NoSelfNotification ==
    \A n \in DOMAIN notifications :
        notifications[n].recipient # notifications[n].sender

\* the asker has answered their own question and another user has answered
\* it too: two answers are stored and one notification
C29_Witness ==
    /\ reqs = << >>
    /\ resp = Reply("createAnswer", Created, "answer")
    /\ \E a \in DOMAIN answers, b \in DOMAIN answers :
          /\ answers[a].question = answers[b].question
          /\ answers[a].author = questions[answers[a].question].author
          /\ answers[b].author # answers[a].author
    /\ Cardinality(DOMAIN notifications) = 1

\* C30 - no orphan answers: in every reachable state every stored answer
\* refers to a stored question, also when a createAnswer on a question
\* interleaves with the deleteQuestion of that question.
C30_NoOrphanAnswers ==
    \A a \in DOMAIN answers : answers[a].question \in DOMAIN questions

====
